---- MODULE Spec2Model ----
(***************************************************************************)
(* Model of interwebz/api.py: the command-sanitization pipeline that sits  *)
(* between untrusted web clients and a shared, namespaced Redis.           *)
(*                                                                         *)
(* A Python str is modelled as a sequence of code points (integers), so    *)
(* that ord(), chr(), lower(), isprintable() and int() are computed, not   *)
(* assumed.  A JSON / Redis value is a record of one field that  *)
(* its type names: [str |-> chars], [int |-> n], [list |-> items],         *)
(* [dict |-> pairs].                                                       *)
(***************************************************************************)
EXTENDS Integers, Sequences, FiniteSets, TLC

(* ------------------------------------------------------------------ *)
(* Limits (api.py:10-12)                                                *)
(* ------------------------------------------------------------------ *)
max_batch_size == 20
max_arguments == 25
max_argument_size == 256

(* ------------------------------------------------------------------ *)
(* Bounds of the model                                                  *)
(* ------------------------------------------------------------------ *)
\* longest command line enumerated exhaustively over TinyAlphabet
MaxLineLen == 3
\* longest batch of text lines drawn from BatchLines
MaxBatch == 3
\* most extra arguments appended to a denied command name
MaxExtraArgs == 2
\* int() results are saturated at +/- IntCap (Python ints are unbounded)
IntCap == 100000

(* ------------------------------------------------------------------ *)
(* Characters                                                           *)
(* ------------------------------------------------------------------ *)
\* escapes = {'n': '\n', 'r': '\r', 't': '\t', 'b': '\b', 'a': '\a'},
\* as a set of <<letter, control character>> pairs
escapes == { <<110, 10>>, <<114, 13>>, <<116, 9>>, <<98, 8>>, <<97, 7>> }
\* unescapes = {v: k for k, v in escapes.items()}
unescapes == { <<p[2], p[1]>> : p \in escapes }

\* dict.get(key, default) on a set of pairs
DictGet(d, key, default) ==
    IF \E p \in d : p[1] = key THEN (CHOOSE p \in d : p[1] = key)[2] ELSE default

BACKSLASH == 92
DQUOTE == 34
SQUOTE == 39
LETTER_x == 120

\* the defaults of shlex.shlex in non-POSIX mode
Whitespace == {32, 9, 13, 10}
Commenters == {35}
WordChars == (97..122) \cup (65..90) \cup (48..57) \cup {95}
Quotes == {SQUOTE, DQUOTE}
\* shlex names its scanner states by characters: ' ' between tokens and
\* 'a' inside a word; inside a quoted run the state is the quote character
ST_SPACE == 32
ST_WORD == 97

\* str.lower() on one character (ASCII and Latin-1 letters)
LowerChar(c) ==
    IF (c >= 65 /\ c <= 90) \/ (c >= 192 /\ c <= 222 /\ c # 215) THEN c + 32 ELSE c
lower(s) == [k \in 1..Len(s) |-> LowerChar(s[k])]

\* str.isprintable() on one character, for code points below 256
isprintable(c) == (c >= 32 /\ c <= 126) \/ (c >= 161 /\ c <= 255 /\ c # 173)

\* the number of bytes the character takes on the wire (UTF-8, the
\* encoding the Redis client sends a str in)
Utf8Len(c) == IF c < 128 THEN 1 ELSE IF c < 2048 THEN 2 ELSE 3
\* len(s.encode()): one byte per character and the extra bytes of the
\* characters that need two or three
ByteLength(s) ==
    Len(s) + Cardinality({k \in 1..Len(s) : Utf8Len(s[k]) >= 2})
           + Cardinality({k \in 1..Len(s) : Utf8Len(s[k]) >= 3})

\* the first position at or after `from` whose character is in (is not in)
\* the set, or Len(s) + 1
FirstIn(s, from, set) ==
    CHOOSE q \in from..(Len(s) + 1) :
        /\ q = Len(s) + 1 \/ s[q] \in set
        /\ \A r \in from..(q - 1) : s[r] \notin set
FirstNotIn(s, from, set) ==
    CHOOSE q \in from..(Len(s) + 1) :
        /\ q = Len(s) + 1 \/ s[q] \notin set
        /\ \A r \in from..(q - 1) : s[r] \in set

Rep(c, n) == [k \in 1..n |-> c]

(* ------------------------------------------------------------------ *)
(* int()                                                                *)
(* ------------------------------------------------------------------ *)
DigitValue(c, base) ==
    IF c >= 48 /\ c <= 57 /\ c - 48 < base THEN c - 48
    ELSE IF c >= 97 /\ c <= 122 /\ c - 87 < base THEN c - 87
    ELSE IF c >= 65 /\ c <= 90 /\ c - 55 < base THEN c - 55
    ELSE -1

\* whitespace that int() strips (str.strip())
IntSpace == {32, 9, 10, 11, 12, 13}

\* str.strip()
Strip(s) ==
    LET first == FirstNotIn(s, 1, IntSpace)
        last == IF first > Len(s) THEN 0
                ELSE CHOOSE q \in first..Len(s) :
                         s[q] \notin IntSpace /\ \A r \in (q + 1)..Len(s) : s[r] \in IntSpace
    IN  SubSeq(s, first, last)

\* digits of the base, with single underscores between digits only
DigitsOk(s, base) ==
    /\ s # <<>>
    /\ \A k \in 1..Len(s) :
          IF s[k] = 95
          THEN k > 1 /\ k < Len(s) /\ s[k - 1] # 95 /\ s[k + 1] # 95
          ELSE DigitValue(s[k], base) >= 0

Saturate(n) == IF n > IntCap THEN IntCap ELSE n

\* the value of the digits, saturated at IntCap
RECURSIVE DigitsValue(_, _, _, _)
DigitsValue(s, k, base, acc) ==
    IF k > Len(s) \/ acc >= IntCap THEN acc
    ELSE IF s[k] = 95 THEN DigitsValue(s, k + 1, base, acc)
    ELSE DigitsValue(s, k + 1, base, Saturate(acc * base + DigitValue(s[k], base)))

\* a 0x / 0X prefix is accepted by int(s, 16)
StripPrefix(s, base) ==
    IF base = 16 /\ Len(s) >= 2 /\ s[1] = 48 /\ s[2] \in {120, 88}
    THEN IF Len(s) >= 3 /\ s[3] = 95 THEN SubSeq(s, 4, Len(s)) ELSE SubSeq(s, 3, Len(s))
    ELSE s

\* int(s, base): [ok |-> FALSE] stands for ValueError
ParseInt(s, base) ==
    LET t == Strip(s)
        signed == t # <<>> /\ Head(t) \in {43, 45}
        body == StripPrefix(IF signed THEN Tail(t) ELSE t, base)
        \* leading zeros and underscores add nothing
        mag == DigitsValue(body, FirstNotIn(body, 1, {48, 95}), base, 0)
    IN  IF DigitsOk(body, base)
        THEN [ok |-> TRUE, value |-> IF signed /\ Head(t) = 45 THEN 0 - mag ELSE mag]
        ELSE [ok |-> FALSE, value |-> 0]

(* ------------------------------------------------------------------ *)
(* reply, deny, snip                                                    *)
(* ------------------------------------------------------------------ *)
reply(value, error) == [value |-> value, error |-> error]

\* f'{message} allowed on the interwebz'
deny(message) == reply(<<message, "allowed on the interwebz">>, TRUE)

\* '... (full value snipped by the interwebz)'
signature ==
    << 46, 46, 46, 32, 40, 102, 117, 108, 108, 32, 118, 97, 108, 117, 101, 32,
       115, 110, 105, 112, 112, 101, 100, 32, 98, 121, 32, 116, 104, 101, 32,
       105, 110, 116, 101, 114, 119, 101, 98, 122, 41 >>

\* value[:n] for any integer n, as Python slices
Prefix(s, n) ==
    LET stop == IF n >= 0 THEN n ELSE Len(s) + n
    IN  IF stop <= 0 THEN <<>> ELSE IF stop >= Len(s) THEN s ELSE SubSeq(s, 1, stop)

\* snip without room left for the signature
snip_no_room(value, init) == Prefix(value, max_argument_size - init) \o signature

snip(value, init) == Prefix(value, max_argument_size - init - Len(signature)) \o signature

(* ------------------------------------------------------------------ *)
(* Tokenizer: list(iter(shlex(command, True).get_token, ''))            *)
(* The second positional parameter of shlex() is infile, so the lexer   *)
(* that is iterated runs in non-POSIX mode with the default commenters  *)
(* and without whitespace_split.                                        *)
(* ------------------------------------------------------------------ *)
\* instream.readline(): the position after the next line feed
readline(s, pos) ==
    LET nl == FirstIn(s, pos, {10}) IN IF nl > Len(s) THEN nl ELSE nl + 1

\* the rest of a word (shlex state 'a') from position pos on: word
\* characters and quotes are added to the token; whitespace ends it and is
\* consumed; a comment is skipped to the end of its line and the word goes
\* on after it; any other character ends the word and is pushed back
RECURSIVE read_word(_, _, _)
read_word(s, pos, token) ==
    LET stop == FirstNotIn(s, pos, WordChars \cup Quotes)
        word == token \o SubSeq(s, pos, stop - 1)
    IN  IF stop > Len(s) THEN [err |-> FALSE, token |-> word, next |-> stop]
        ELSE IF s[stop] \in Whitespace THEN [err |-> FALSE, token |-> word, next |-> stop + 1]
        ELSE IF s[stop] \in Commenters THEN read_word(s, readline(s, stop + 1), word)
        ELSE [err |-> FALSE, token |-> word, next |-> stop]

\* shlex.read_token from state ' ' at a character that is no whitespace:
\* the token read (none for a comment) and the position after it.
\* [err |-> TRUE] stands for ValueError("No closing quotation").
read_token(s, pos) ==
    LET nextchar == s[pos]
        close == FirstIn(s, pos + 1, {nextchar})
    IN  IF nextchar \in Commenters
        THEN [err |-> FALSE, token |-> <<>>, next |-> readline(s, pos + 1)]
        ELSE IF nextchar \in WordChars
        THEN read_word(s, pos + 1, <<nextchar>>)
        ELSE IF nextchar \in Quotes
        THEN IF close > Len(s)
             THEN [err |-> TRUE, token |-> <<>>, next |-> close]
             ELSE [err |-> FALSE, token |-> SubSeq(s, pos, close), next |-> close + 1]
        ELSE [err |-> FALSE, token |-> <<nextchar>>, next |-> pos + 1]

\* list(iter(get_token, '')): the tokens up to the end of the input
RECURSIVE get_token(_, _, _)
get_token(s, pos, out) ==
    LET start == FirstNotIn(s, pos, Whitespace)
        tok == read_token(s, start)
    IN  IF start > Len(s) THEN [err |-> FALSE, argv |-> out]
        ELSE IF tok.err THEN [err |-> TRUE, argv |-> <<>>]
        ELSE get_token(s, tok.next, IF tok.token = <<>> THEN out ELSE Append(out, tok.token))

get_tokens(command) == get_token(command, 1, <<>>)

(* ------------------------------------------------------------------ *)
(* unescape_argument                                                    *)
(* ------------------------------------------------------------------ *)
\* the while loop over a double-quoted value; i is 1-based
RECURSIVE unescape_loop(_, _, _)
unescape_loop(value, i, result) ==
    IF i > Len(value) THEN result
    ELSE IF value[i] = BACKSLASH
    THEN IF i + 1 > Len(value)
         THEN value
         ELSE IF value[i + 1] = LETTER_x /\ i + 3 <= Len(value)
         THEN LET hex_val == ParseInt(SubSeq(value, i + 2, i + 3), 16)
              IN  IF hex_val.ok /\ hex_val.value >= 0
                  THEN unescape_loop(value, i + 4, Append(result, hex_val.value))
                  ELSE unescape_loop(value, i + 1, Append(result, value[i]))
         ELSE unescape_loop(value, i + 2,
                            Append(result, DictGet(escapes, value[i + 1], value[i + 1])))
    ELSE LET stop == FirstIn(value, i, {BACKSLASH})
         IN  unescape_loop(value, stop, result \o SubSeq(value, i, stop - 1))

\* str.replace("\\'", "'"), from position i on
RECURSIVE replace_escaped_quote(_, _)
replace_escaped_quote(s, i) ==
    LET hits == {k \in i..(Len(s) - 1) : s[k] = BACKSLASH /\ s[k + 1] = SQUOTE}
    IN  IF hits = {} THEN SubSeq(s, i, Len(s))
        ELSE LET k == CHOOSE h \in hits : \A g \in hits : h <= g
             IN  SubSeq(s, i, k - 1) \o <<SQUOTE>> \o replace_escaped_quote(s, k + 2)

unescape_argument(argument) ==
    IF Len(argument) < 2 \/ ~(argument[1] = DQUOTE \/ argument[1] = SQUOTE)
    THEN argument
    ELSE LET value == SubSeq(argument, 2, Len(argument) - 1)
         IN  IF argument[1] = DQUOTE
             THEN unescape_loop(value, 1, <<>>)
             ELSE replace_escaped_quote(value, 1)

(* ------------------------------------------------------------------ *)
(* escape_strings                                                       *)
(* ------------------------------------------------------------------ *)
\* the values of JSON and of the store, and type(x), as records of one field
String(chars) == [str |-> chars]
Integer(n) == [int |-> n]
ListOf(items) == [list |-> items]
DictOf(pairs) == [dict |-> pairs]
TypeOf(x) == CHOOSE f \in DOMAIN x : TRUE

HexDigit(n) == IF n < 10 THEN 48 + n ELSE 87 + n
RECURSIVE Hex(_)
Hex(n) == IF n < 16 THEN <<HexDigit(n)>> ELSE Append(Hex(n \div 16), HexDigit(n % 16))
\* f'\\x{ord(c):02x}'
HexEscape(c) == <<BACKSLASH, LETTER_x>> \o (IF c < 16 THEN <<48>> ELSE <<>>) \o Hex(c)

\* the branch chain of the for loop, for one character
escape_char(c) ==
    IF c = BACKSLASH THEN <<BACKSLASH, BACKSLASH>>
    ELSE IF c = DQUOTE THEN <<BACKSLASH, DQUOTE>>
    ELSE IF ~isprintable(c) THEN HexEscape(c)
    ELSE <<DictGet(unescapes, c, c)>>

RECURSIVE escape_str(_)
escape_str(resp) ==
    IF resp = <<>> THEN <<>> ELSE escape_char(Head(resp)) \o escape_str(Tail(resp))

RECURSIVE escape_strings(_)
escape_strings(resp) ==
    IF TypeOf(resp) = "str"
    THEN LET escaped == escape_str(resp.str)
         IN  String(IF escaped # resp.str THEN <<DQUOTE>> \o escaped \o <<DQUOTE>>
                    ELSE escaped)
    ELSE IF TypeOf(resp) = "list"
    THEN ListOf([k \in 1..Len(resp.list) |-> escape_strings(resp.list[k])])
    ELSE IF TypeOf(resp) = "dict"
    THEN DictOf([k \in 1..Len(resp.dict) |->
                    <<resp.dict[k][1], escape_strings(resp.dict[k][2])>>])
    ELSE resp

(* ------------------------------------------------------------------ *)
(* sanitize_exceptions                                                  *)
(* ------------------------------------------------------------------ *)
W_setbit == <<115, 101, 116, 98, 105, 116>>
W_setrange == <<115, 101, 116, 114, 97, 110, 103, 101>>
W_quit == <<113, 117, 105, 116>>
W_hello == <<104, 101, 108, 108, 111>>
W_reset == <<114, 101, 115, 101, 116>>
W_auth == <<97, 117, 116, 104>>
W_info == <<105, 110, 102, 111>>
W_client == <<99, 108, 105, 101, 110, 116>>

\* ['quit', 'hello', 'reset', 'auth']
denied_commands == {W_quit, W_hello, W_reset, W_auth}

\* [error |-> FALSE] stands for the None that is returned; argv is the list
\* as the call leaves it (it is mutated in place)
Passed(argv) == [error |-> FALSE, message |-> <<>>, argv |-> argv]
Refused(message, argv) == [error |-> TRUE, message |-> message, argv |-> argv]

\* sanitize_setbit with the bound tested by >= instead of >
sanitize_setbit_inclusive(argv) ==
    LET offset == ParseInt(argv[3], 10)
        max_offset == max_argument_size * 8
    IN  IF offset.ok /\ offset.value >= max_offset
        THEN Refused(<<"offset too big - only up to", max_offset, "bits">>, argv)
        ELSE Passed(argv)

sanitize_setbit(argv) ==
    LET offset == ParseInt(argv[3], 10)
        max_offset == max_argument_size * 8
    IN  IF offset.ok /\ offset.value > max_offset
        THEN Refused(<<"offset too big - only up to", max_offset, "bits">>, argv)
        ELSE Passed(argv)

sanitize_setrange(argv) ==
    LET offset == ParseInt(argv[3], 10)
    IN  IF ~offset.ok
        THEN Passed([argv EXCEPT ![4] = <<>>])
        ELSE IF offset.value > max_argument_size
        THEN Refused(<<"offset too big - only up to", max_argument_size, "bytes">>, argv)
        ELSE Passed([argv EXCEPT
                        ![4] = Prefix(argv[4], max_argument_size - offset.value + 1)])

sanitize_denied(argv) == Refused(<<"the '", argv[1], "' command is not">>, argv)

\* sanitize_exceptions without the .lower() of the command name
sanitize_exceptions_case_sensitive(argv) ==
    LET cmd_name == argv[1]
        argc == Len(argv)
    IN  IF cmd_name = W_setbit /\ argc = 4 THEN sanitize_setbit(argv)
        ELSE IF cmd_name = W_setrange /\ argc = 4 THEN sanitize_setrange(argv)
        ELSE IF cmd_name \in denied_commands THEN sanitize_denied(argv)
        ELSE Passed(argv)

sanitize_exceptions(argv) ==
    LET cmd_name == lower(argv[1])
        argc == Len(argv)
    IN  IF cmd_name = W_setbit /\ argc = 4 THEN sanitize_setbit(argv)
        ELSE IF cmd_name = W_setrange /\ argc = 4 THEN sanitize_setrange(argv)
        ELSE IF cmd_name \in denied_commands THEN sanitize_denied(argv)
        ELSE Passed(argv)

(* ------------------------------------------------------------------ *)
(* verify_commands                                                      *)
(* ------------------------------------------------------------------ *)
\* [rejected |-> FALSE] stands for the None that is returned
verify_commands(commands) ==
    IF TypeOf(commands) # "list"
    THEN [rejected |-> TRUE, response |-> <<"It posts commands as a list", 400>>]
    ELSE IF Len(commands.list) > max_batch_size
    THEN [rejected |-> TRUE,
          response |-> deny(<<"batch is too large. Only up to", max_batch_size, "commands">>)]
    ELSE [rejected |-> FALSE, response |-> <<>>]

(* ------------------------------------------------------------------ *)
(* The argument loop of execute_commands (api.py:138-145)               *)
(* ------------------------------------------------------------------ *)
sanitize_argument(argument) ==
    LET decoded == unescape_argument(argument)
    IN  IF Len(decoded) > max_argument_size THEN snip(decoded, 0) ELSE decoded

sanitize_arguments(argv) == [k \in 1..Len(argv) |-> sanitize_argument(argv[k])]

(* ------------------------------------------------------------------ *)
(* Inputs: the posted values and the replies of the store               *)
(* ------------------------------------------------------------------ *)

\* all sequences over `alphabet` of length at most n
RECURSIVE SeqsUpTo(_, _)
SeqsUpTo(alphabet, n) ==
    IF n = 0 THEN {<<>>}
    ELSE LET shorter == SeqsUpTo(alphabet, n - 1)
         IN  shorter \cup {Append(w, c) : w \in {x \in shorter : Len(x) = n - 1}, c \in alphabet}

\* the decimal digits of a natural number
RECURSIVE Digits(_)
Digits(n) == IF n < 10 THEN <<48 + n>> ELSE Append(Digits(n \div 10), 48 + (n % 10))

\* words joined by single spaces
RECURSIVE Join(_)
Join(words) ==
    IF words = <<>> THEN <<>>
    ELSE IF Len(words) = 1 THEN words[1]
    ELSE Join(SubSeq(words, 1, Len(words) - 1)) \o <<32>> \o words[Len(words)]

Quoted(q, w) == <<q>> \o w \o <<q>>
Upper(w) == [k \in 1..Len(w) |-> IF w[k] >= 97 /\ w[k] <= 122 THEN w[k] - 32 ELSE w[k]]
Capitalized(w) == [k \in 1..Len(w) |-> IF k = 1 THEN Upper(w)[k] ELSE w[k]]
Cases(w) == {w, Upper(w), Capitalized(w)}
Quotings(w) == {w, Quoted(DQUOTE, w), Quoted(SQUOTE, w)}
\* n letters a, b, c, ... z, a, b, ...
Pattern(n) == [k \in 1..n |-> 97 + ((k - 1) % 26)]

W_x == <<120>>
W_k == <<107>>
W_one == <<49>>
W_get == <<103, 101, 116>>
W_set == <<115, 101, 116>>
\* e with an acute accent: a character of two bytes in UTF-8
W_eacute == <<233>>

\* every line of at most MaxLineLen characters over: a space # " \ LF -
TinyAlphabet == {97, 32, 35, DQUOTE, BACKSLASH, 10, 45}
ShortLines == SeqsUpTo(TinyAlphabet, MaxLineLen)

\* the connection commands, in every letter case and quoting, with 0 to
\* MaxExtraArgs arguments and with enough arguments to pass max_arguments
ConnectionCommands == {W_quit, W_hello, W_reset, W_auth}
DeniedLines ==
    { Join(<<name>> \o Rep(W_x, n)) :
        name \in UNION {Quotings(c) : c \in UNION {Cases(w) : w \in ConnectionCommands}},
        n \in (0..MaxExtraArgs) \cup {max_arguments - 1, max_arguments} }

\* offsets around both limits, written in the ways int() accepts, and
\* words that int() does not accept
Offsets ==
    {0, 1, 2, 100, max_argument_size - 1, max_argument_size, max_argument_size + 1,
     max_argument_size * 8 - 1, max_argument_size * 8, max_argument_size * 8 + 1,
     3000000}
OffsetWords ==
    {Digits(n) : n \in Offsets}
    \cup {Quoted(DQUOTE, <<45>> \o Digits(n)) : n \in {1, 300}}
    \cup {Quoted(DQUOTE, <<43>> \o Digits(n)) : n \in {max_argument_size, max_argument_size + 1}}
    \cup {Quoted(SQUOTE, <<32>> \o Digits(max_argument_size) \o <<32>>)}
    \cup {<<49, 95, 48>>, <<48, 48, 50>>, <<97, 98, 99>>, <<50, 48, 52, 56, 120>>,
          <<DQUOTE, DQUOTE>>}

\* values shorter and longer than the argument limit
ValueWords ==
    {Pattern(n) : n \in {1, 2, 3, max_argument_size - 1, max_argument_size,
                         max_argument_size + 1, 300}}
    \cup {<<DQUOTE, DQUOTE>>, Quoted(DQUOTE, Rep(W_eacute[1], 3)),
          Quoted(DQUOTE, Rep(W_eacute[1], max_argument_size + 2))}

SetrangeLines ==
    {Join(<<c, W_k, off, val>>) : c \in {W_setrange, Upper(W_setrange)},
                                  off \in OffsetWords, val \in ValueWords}
    \cup {Join(<<W_setrange, W_k, off>>) : off \in OffsetWords}
    \cup {Join(<<W_setrange, W_k, off, Pattern(300), W_x>>) : off \in OffsetWords}

SetbitLines ==
    {Join(<<c, W_k, off, W_one>>) : c \in Cases(W_setbit), off \in OffsetWords}
    \cup {Join(<<W_setbit, W_k, off>>) : off \in OffsetWords}
    \cup {Join(<<W_setbit, W_k, off, W_one, W_x>>) : off \in OffsetWords}

\* commands with about max_arguments arguments, separated by spaces or
\* by nothing (every '-' is a token of its own)
ManyArgLines ==
    {Join(<<W_get>> \o Rep(W_x, n - 1)) : n \in (max_arguments - 1)..(max_arguments + 2)}
    \cup {Rep(45, n) : n \in (max_arguments - 1)..(max_arguments + 2)}

\* arguments about max_argument_size long, bare, quoted and escaped
LongValues ==
    {Pattern(n) : n \in (max_argument_size - 1)..(max_argument_size + 2)}
    \cup {Quoted(q, Pattern(n)) : q \in Quotes,
                                  n \in max_argument_size..(max_argument_size + 1)}
    \cup {Quoted(DQUOTE, <<BACKSLASH, 110>> \o Pattern(n)) :
              n \in (max_argument_size - 1)..max_argument_size}
    \cup {Quoted(DQUOTE, <<BACKSLASH, LETTER_x, 101, 57>> \o Pattern(max_argument_size)),
          Quoted(DQUOTE, Pattern(max_argument_size) \o <<BACKSLASH>>),
          Quoted(DQUOTE, Rep(W_eacute[1], max_argument_size)),
          Quoted(DQUOTE, Rep(W_eacute[1], max_argument_size + 1))}
LongArgLines ==
    {Join(<<W_set, W_k, v>>) : v \in LongValues}
    \cup {Join(<<v, W_k>>) : v \in LongValues}

\* the escape dialect inside quotes
EscapeWords ==
    { Quoted(DQUOTE, <<97, BACKSLASH, 110, 98>>),              \* "a\nb"
      Quoted(DQUOTE, <<BACKSLASH, LETTER_x, 52, 49>>),         \* "\x41"
      Quoted(DQUOTE, <<BACKSLASH, LETTER_x, 122, 122>>),       \* "\xzz"
      Quoted(DQUOTE, <<BACKSLASH, LETTER_x, 52>>),             \* "\x4"
      Quoted(DQUOTE, <<BACKSLASH, LETTER_x, 45, 49>>),         \* "\x-1"
      Quoted(DQUOTE, <<BACKSLASH, 113>>),                      \* "\q"
      Quoted(DQUOTE, <<97, BACKSLASH>>),                       \* "a\"
      Quoted(SQUOTE, <<105, 116, BACKSLASH>>) \o <<115, SQUOTE>>,  \* 'it\'s'
      Quoted(SQUOTE, <<49>>),                                  \* '1'
      <<113, 117, DQUOTE, 105, 116, DQUOTE>> }                 \* qu"it"
EscapeLines ==
    {Join(<<W_set, w, v>>) : w \in EscapeWords, v \in {W_one, Quoted(SQUOTE, W_one)}}
    \cup EscapeWords

\* the diagnostic commands
InfoLines ==
    { W_info, Upper(W_info), Join(<<W_info, W_x>>), Join(<<W_client, W_info>>),
      Join(<<Upper(W_client), Capitalized(W_info), W_x>>), Join(<<W_client, W_x>>),
      W_client }

\* a '#' in a longer command: before, inside and after a word, and quoted
HashLines ==
    { Join(<<W_set, W_k, <<35>>, W_x>>),                  \* set k # x
      Join(<<W_set, W_k \o <<35>> \o W_x, W_one>>),       \* set k#x 1
      Join(<<W_set, <<35>> \o W_k, W_x>>),                \* set #k x
      Join(<<W_set, W_k, Quoted(DQUOTE, <<97, 35, 98>>)>>),   \* set k "a#b"
      Join(<<<<35>> \o W_set, W_k, W_x>>),                \* #set k x
      Join(<<W_get, W_k \o <<35>> >>) }                   \* get k#

RichLines ==
    ShortLines \cup DeniedLines \cup SetrangeLines \cup SetbitLines \cup ManyArgLines
    \cup LongArgLines \cup EscapeLines \cup InfoLines \cup HashLines

\* one line of every outcome, for the batches of several lines
BatchLines ==
    { <<>>,                                   \* empty
      <<32, 9>>,                              \* whitespace only
      <<35, 97>>,                             \* #a
      <<DQUOTE, 97>>,                         \* "a   (no closing quotation)
      Rep(45, max_arguments + 1),             \* max_arguments + 1 arguments
      Upper(W_quit),                          \* QUIT
      Join(<<W_get, W_k>>),                   \* get k
      W_info }                                \* info

\* the values a client can post: values that are no list, lists about
\* max_batch_size long (of a command the policy denies, so that the store
\* does not multiply the runs), lists with an entry that is no string, the
\* lists of one line of RichLines and the lists of at most MaxBatch lines of
\* BatchLines
ShapeLengths == {0, 1, 2, max_batch_size - 1, max_batch_size, max_batch_size + 1,
                 max_batch_size + 2}
PostedValues ==
    { String(Join(<<W_get, W_k>>)), Integer(1), DictOf(<<>>) }
    \cup {ListOf(Rep(String(W_quit), n)) : n \in ShapeLengths}
    \cup {ListOf([k \in 1..n |-> IF k = at THEN Integer(5) ELSE String(W_quit)]) :
              n \in ShapeLengths \ {0}, at \in {1, 2}}
    \cup {ListOf(<<String(line)>>) : line \in RichLines}
    \cup {ListOf([k \in 1..Len(lines) |-> String(lines[k])]) : lines \in SeqsUpTo(BatchLines, MaxBatch)}

\* what the store answers: a status string, a string with characters that
\* escape_strings re-encodes, and a nested value
StoreReplies ==
    { String(<<79, 75>>),
      String(<<97, 10, 13, 9, 8, 7, BACKSLASH, DQUOTE, 1, 233, 32, 98>>),
      ListOf(<<Integer(1), String(<<10>>), DictOf(<< <<W_k, String(<<9, 97>>)>> >>)>>) }

(* ------------------------------------------------------------------ *)
(* State                                                                *)
(* ------------------------------------------------------------------ *)
VARIABLES
    commands,   \* the posted value
    pc,         \* "posted", "executing", "returned", "rejected" or "raised"
    i,          \* execute_commands: the index of the command the loop is at
    rep,        \* execute_commands: the reply list
    calls,      \* the argument vectors the store client has received
    log,        \* per command handled: what the loop did with it
    response    \* what the request answers

vars == <<commands, pc, i, rep, calls, log, response>>

Init ==
    /\ commands \in PostedValues
    /\ pc = "posted"
    /\ i = 1
    /\ rep = <<>>
    /\ calls = <<>>
    /\ log = <<>>
    /\ response = <<>>

\* the command of this iteration and what the loop computes from it
command == commands.list[i]
tokens == get_tokens(command.str)
decoded == [k \in 1..Len(tokens.argv) |-> unescape_argument(tokens.argv[k])]
sanitized == sanitize_arguments(tokens.argv)
verdict == sanitize_exceptions(sanitized)
InLoop == pc = "executing" /\ i <= Len(commands.list)

\* one entry of the log: the outcome, what the store answered, the
\* arguments as decoded and as length-capped, and the places of the reply
\* and of the store call
NoReply == [none |-> 0]
Entry(outcome, hasReply, hasCall, resp) ==
    [ outcome |-> outcome,
      resp |-> resp,
      decoded |-> IF TypeOf(command) = "str" /\ ~tokens.err THEN decoded ELSE <<>>,
      argv |-> IF TypeOf(command) = "str" /\ ~tokens.err THEN sanitized ELSE <<>>,
      reply |-> IF hasReply THEN Len(rep) + 1 ELSE 0,
      call |-> IF hasCall THEN Len(calls) + 1 ELSE 0 ]

\* the caller: verify_commands, then execute_commands unless it objects
VerifyCommands ==
    /\ pc = "posted"
    /\ LET verdict0 == verify_commands(commands)
       IN  IF verdict0.rejected
           THEN pc' = "rejected" /\ response' = verdict0.response
           ELSE pc' = "executing" /\ response' = response
    /\ UNCHANGED <<commands, i, rep, calls, log>>

\* shlex(command, True) on a value that is no str: get_token fails with
\* an AttributeError, which the except clause does not catch
NotAString ==
    /\ InLoop
    /\ TypeOf(command) # "str"
    /\ pc' = "raised"
    /\ UNCHANGED <<commands, i, rep, calls, log, response>>

\* the tokenizer's ValueError left uncaught
ParseErrorPropagates ==
    /\ InLoop
    /\ TypeOf(command) = "str"
    /\ tokens.err
    /\ pc' = "raised"
    /\ UNCHANGED <<commands, i, rep, calls, log, response>>

\* except ValueError as e: rep.append(reply(str(e), True)); continue
ParseError ==
    /\ InLoop
    /\ TypeOf(command) = "str"
    /\ tokens.err
    /\ rep' = Append(rep, reply(<<"No closing quotation">>, TRUE))
    /\ log' = Append(log, Entry("parse_error", TRUE, FALSE, NoReply))
    /\ i' = i + 1
    /\ UNCHANGED <<commands, pc, calls, response>>

\* if argc == 0: continue
NoArguments ==
    /\ InLoop
    /\ TypeOf(command) = "str"
    /\ ~tokens.err
    /\ Len(tokens.argv) = 0
    /\ log' = Append(log, Entry("skipped", FALSE, FALSE, NoReply))
    /\ i' = i + 1
    /\ UNCHANGED <<commands, pc, rep, calls, response>>

\* if argc > max_arguments: rep.append(deny(...)); continue
TooManyArguments ==
    /\ InLoop
    /\ TypeOf(command) = "str"
    /\ ~tokens.err
    /\ Len(tokens.argv) > max_arguments
    /\ rep' = Append(rep, deny(<<"too many arguments - only up to", max_arguments>>))
    /\ log' = Append(log, Entry("too_many", TRUE, FALSE, NoReply))
    /\ i' = i + 1
    /\ UNCHANGED <<commands, pc, calls, response>>

Checked ==
    /\ InLoop
    /\ TypeOf(command) = "str"
    /\ ~tokens.err
    /\ Len(tokens.argv) > 0
    /\ Len(tokens.argv) <= max_arguments

\* error = sanitize_exceptions(argv); if error is not None: deny, continue
PolicyDenied ==
    /\ Checked
    /\ verdict.error
    /\ rep' = Append(rep, deny(verdict.message))
    /\ log' = Append(log, Entry("denied", TRUE, FALSE, NoReply))
    /\ i' = i + 1
    /\ UNCHANGED <<commands, pc, calls, response>>

\* the diagnostic commands whose reply is not escaped
IsInfo(argv, argc) ==
    \/ lower(argv[1]) = W_info
    \/ argc > 1 /\ lower(argv[1]) = W_client /\ lower(argv[2]) = W_info

\* resp = client.execute_namespaced(session, argv); escape; append
Dispatch ==
    /\ Checked
    /\ ~verdict.error
    /\ \E resp \in StoreReplies :
         /\ rep' = Append(rep, reply(IF IsInfo(verdict.argv, Len(sanitized)) THEN resp
                                     ELSE escape_strings(resp), FALSE))
         /\ log' = Append(log, Entry("replied", TRUE, TRUE, resp))
    /\ calls' = Append(calls, verdict.argv)
    /\ i' = i + 1
    /\ UNCHANGED <<commands, pc, response>>

\* except Exception as e: rep.append(reply(str(e), True))
DispatchRaises ==
    /\ Checked
    /\ ~verdict.error
    /\ rep' = Append(rep, reply(<<"store error">>, TRUE))
    /\ calls' = Append(calls, verdict.argv)
    /\ log' = Append(log, Entry("store_error", TRUE, TRUE, NoReply))
    /\ i' = i + 1
    /\ UNCHANGED <<commands, pc, response>>

\* return rep
Return ==
    /\ pc = "executing"
    /\ i > Len(commands.list)
    /\ pc' = "returned"
    /\ response' = rep
    /\ UNCHANGED <<commands, i, rep, calls, log>>

Next ==
    \/ VerifyCommands
    \/ NotAString
    \/ ParseError
    \/ NoArguments
    \/ TooManyArguments
    \/ PolicyDenied
    \/ Dispatch
    \/ DispatchRaises
    \/ Return

Spec == Init /\ [][Next]_vars

(* ------------------------------------------------------------------ *)
(* Properties                                                           *)
(* ------------------------------------------------------------------ *)
IsList == TypeOf(commands) = "list"
IsStringBatch == IsList /\ \A k \in 1..Len(commands.list) : TypeOf(commands.list[k]) = "str"
Line(k) == commands.list[k].str
Handled == 1..Len(log)
EndsWith(s, tail) ==
    Len(s) >= Len(tail) /\ SubSeq(s, Len(s) - Len(tail) + 1, Len(s)) = tail
IsDenial(r) == r.error /\ Len(r.value) = 2 /\ r.value[2] = "allowed on the interwebz"

\* C1: a command whose decoded first argument is quit, hello, reset or
\* auth in any letter case is answered with a denial (error = true) and
\* the store client never receives such an argument vector.
C1_ConnectionCommandsDenied ==
    /\ \A k \in Handled :
         (log[k].decoded # <<>> /\ lower(log[k].decoded[1]) \in ConnectionCommands)
         => /\ log[k].call = 0
            /\ log[k].reply > 0
            /\ IsDenial(rep[log[k].reply])
    /\ \A c \in 1..Len(calls) : lower(calls[c][1]) \notin ConnectionCommands

\* a double-quoted AUTH with two arguments has been denied
C1_Witness ==
    /\ pc = "returned"
    /\ Len(log) = 1
    /\ log[1].decoded = <<Upper(W_auth), W_x, W_x>>
    /\ Line(1)[1] = DQUOTE
    /\ log[1].outcome = "denied"
    /\ IsDenial(rep[1])
    /\ calls = <<>>

\* C4: in a batch of strings a command that fails (parse error, too many
\* arguments, policy violation, store exception) gets exactly one reply
\* with error = true, the commands after it are still handled and the
\* valid ones dispatched, and execute_commands returns without raising.
C4_FailuresAreIsolated ==
    IsStringBatch =>
        /\ pc # "raised"
        /\ pc = "returned" => Len(log) = Len(commands.list) /\ response = rep
        /\ Len(rep) = Cardinality({k \in Handled : log[k].reply > 0})
        /\ \A j, k \in Handled : (j < k /\ log[k].reply > 0) => log[j].reply < log[k].reply
        /\ \A k \in Handled :
             /\ log[k].outcome \in {"parse_error", "too_many", "denied", "store_error"}
                => log[k].reply > 0 /\ rep[log[k].reply].error
             /\ Line(k) = <<DQUOTE, 97>> => log[k].outcome = "parse_error"
             /\ Line(k) = Rep(45, max_arguments + 1) => log[k].outcome = "too_many"
             /\ Line(k) = Join(<<W_get, W_k>>)
                => log[k].call > 0 /\ calls[log[k].call] = <<W_get, W_k>>

\* a parse error and a store exception, and the command after them
\* dispatched and answered
C4_Witness ==
    /\ pc = "returned"
    /\ Len(log) = 3
    /\ log[1].outcome = "parse_error"
    /\ log[2].outcome = "store_error"
    /\ log[3].outcome = "replied"
    /\ Len(calls) = 2
    /\ rep[1].error /\ rep[2].error /\ ~rep[3].error

\* the argument of a SETRANGE that its offset rule rewrites
IsSetrangeValue(argv, a) == Len(argv) = 4 /\ lower(argv[1]) = W_setrange /\ a = 4

Snipped(forwarded, original) ==
    /\ Len(forwarded) = 256
    /\ EndsWith(forwarded, signature)
    /\ SubSeq(forwarded, 1, 215) = SubSeq(original, 1, 215)

\* C6 as stated: every argument of a dispatched command that is longer
\* than 256 after decoding reaches the store 256 long, ending with the
\* truncation marker after its first 215 characters, the value of SETRANGE
\* included.
C6_EveryLongArgumentSnipped ==
    \A k \in Handled : log[k].call > 0 =>
        \A a \in 1..Len(log[k].decoded) :
            Len(log[k].decoded[a]) > 256 => Snipped(calls[log[k].call][a], log[k].decoded[a])

\* C6 amended: the same, except for the value (argument 3) of a SETRANGE
\* with exactly 4 arguments, which the offset rule cuts or clears after
\* the marker was appended.
C6_LongArgumentsSnipped ==
    \A k \in Handled : log[k].call > 0 =>
        \A a \in 1..Len(log[k].decoded) :
            (Len(log[k].decoded[a]) > 256 /\ ~IsSetrangeValue(log[k].argv, a))
            => Snipped(calls[log[k].call][a], log[k].decoded[a])

\* a quoted value of 257 characters was dispatched snipped
C6_Witness ==
    \E k \in Handled :
        /\ log[k].call > 0
        /\ Len(log[k].decoded) = 3
        /\ Line(k)[Len(Line(k))] = DQUOTE
        /\ Len(log[k].decoded[3]) = 257
        /\ Snipped(calls[log[k].call][3], log[k].decoded[3])

\* C8: a SETBIT (any letter case) with exactly 4 arguments is denied and
\* not dispatched when argument 2 is an integer above 2048, and is
\* dispatched with every argument unchanged when it is an integer up to
\* 2048 or no integer at all.
C8_SetbitBounded ==
    \A k \in Handled :
        (Len(log[k].argv) = 4 /\ lower(log[k].argv[1]) = W_setbit) =>
            LET offset == ParseInt(log[k].argv[3], 10)
            IN  IF offset.ok /\ offset.value > 2048
                THEN log[k].call = 0 /\ IsDenial(rep[log[k].reply])
                ELSE log[k].call > 0 /\ calls[log[k].call] = log[k].argv

\* SETBIT k 2048 1 was dispatched as written
C8_Witness ==
    \E k \in Handled :
        /\ log[k].argv = <<Upper(W_setbit), W_k, Digits(2048), W_one>>
        /\ log[k].call > 0
        /\ calls[log[k].call] = log[k].argv

\* C2: a posted value that is not a list of at most 20 strings (no list,
\* more than 20 entries, or an entry that is no string) is rejected by
\* verify_commands before any command is tokenized or dispatched, and a
\* list of at most 20 strings is accepted.
C2_OnlyStringBatchesExecuted ==
    /\ pc \in {"executing", "returned", "raised"}
       => IsStringBatch /\ Len(commands.list) <= 20
    /\ pc = "rejected" => log = <<>> /\ calls = <<>> /\ rep = <<>>
    /\ (IsStringBatch /\ Len(commands.list) <= 20) => pc # "rejected"

\* str.isspace() on one character, for code points below 256
IsSpace(c) == c \in (9..13) \cup (28..32) \cup {133, 160}
Blank(line) == \A n \in 1..Len(line) : IsSpace(line[n])

\* C3: the list execute_commands returns holds exactly one reply for
\* each line that is not blank and none for a blank line, in the order of
\* the lines.
C3_OneReplyPerNonBlankLine ==
    (pc = "returned" /\ IsStringBatch) =>
        /\ Len(rep) = Cardinality({k \in 1..Len(commands.list) : ~Blank(Line(k))})
        /\ \A k \in Handled : log[k].reply > 0 <=> ~Blank(Line(k))
        /\ \A j, k \in Handled : (j < k /\ log[k].reply > 0) => log[j].reply < log[k].reply

\* C5: every argument vector the store client receives has 1 to 25
\* arguments of at most 256 bytes each, and a command of more than 25
\* arguments is denied and never dispatched.
C5_DispatchedVectorWithinLimits ==
    /\ \A c \in 1..Len(calls) :
         /\ Len(calls[c]) >= 1
         /\ Len(calls[c]) <= 25
         /\ \A a \in 1..Len(calls[c]) : ByteLength(calls[c][a]) <= 256
    /\ \A k \in Handled :
         Len(log[k].argv) > 25 => log[k].call = 0 /\ IsDenial(rep[log[k].reply])

\* C7: a SETRANGE (any letter case) with exactly 4 arguments and an
\* integer offset is denied and not dispatched when the offset is above
\* 256, and otherwise dispatched with arguments 0, 1 and 2 unchanged and
\* argument 3 cut to at most 257 - offset bytes.
C7_SetrangeClamped ==
    \A k \in Handled :
        LET argv == log[k].argv
            offset == ParseInt(argv[3], 10)
        IN  (Len(argv) = 4 /\ lower(argv[1]) = W_setrange /\ offset.ok) =>
                IF offset.value > 256
                THEN log[k].call = 0 /\ IsDenial(rep[log[k].reply])
                ELSE /\ log[k].call > 0
                     /\ SubSeq(calls[log[k].call], 1, 3) = SubSeq(argv, 1, 3)
                     /\ ByteLength(calls[log[k].call][4]) <= 257 - offset.value

\* the escaping C9 describes, for one character
NamedEscape(c) ==
    IF c = 10 THEN <<BACKSLASH, 110>>
    ELSE IF c = 13 THEN <<BACKSLASH, 114>>
    ELSE IF c = 9 THEN <<BACKSLASH, 116>>
    ELSE IF c = 8 THEN <<BACKSLASH, 98>>
    ELSE IF c = 7 THEN <<BACKSLASH, 97>>
    ELSE IF c = BACKSLASH THEN <<BACKSLASH, BACKSLASH>>
    ELSE IF c = DQUOTE THEN <<BACKSLASH, DQUOTE>>
    ELSE IF ~isprintable(c) THEN HexEscape(c)
    ELSE <<c>>
RECURSIVE NamedEscapes(_)
NamedEscapes(str) ==
    IF str = <<>> THEN <<>> ELSE NamedEscape(Head(str)) \o NamedEscapes(Tail(str))
EscapedAsDescribed(str) ==
    IF NamedEscapes(str) # str THEN Quoted(DQUOTE, NamedEscapes(str)) ELSE str

\* C9: a string the store returns (to a command that is no diagnostic
\* one) is answered with line feed, carriage return, tab, backspace and
\* bell as \n, \r, \t, \b and \a, backslash doubled, the double quote
\* escaped, any other non-printable character as \xHH, and in double quotes
\* exactly when something was replaced.
C9_NamedEscapesInReplies ==
    \A k \in Handled :
        (log[k].outcome = "replied" /\ TypeOf(log[k].resp) = "str"
            /\ ~IsInfo(calls[log[k].call], Len(calls[log[k].call])))
        => rep[log[k].reply].value = String(EscapedAsDescribed(log[k].resp.str))

RECURSIVE Flatten(_)
Flatten(words) == IF words = <<>> THEN <<>> ELSE Head(words) \o Flatten(Tail(words))
RECURSIVE WithoutWhitespace(_)
WithoutWhitespace(line) ==
    IF line = <<>> THEN <<>>
    ELSE (IF Head(line) \in Whitespace THEN <<>> ELSE <<Head(line)>>)
         \o WithoutWhitespace(Tail(line))
Chars(line) == {line[n] : n \in 1..Len(line)}

\* C10: a '#' outside quotes is ordinary text and cuts nothing off: of a
\* dispatched line without quotes and backslashes every character that is
\* no whitespace, those after the '#' included, is in the argument vector
\* that was counted, checked and dispatched, in order.
C10_HashIsOrdinaryText ==
    \A k \in Handled :
        (log[k].call > 0 /\ 35 \in Chars(Line(k))
            /\ Chars(Line(k)) \cap (Quotes \cup {BACKSLASH}) = {}
            /\ Len(Line(k)) <= max_arguments)
        => Flatten(log[k].decoded) = WithoutWhitespace(Line(k))

\* the same of the lines without '#': what C10 says of every line holds
\* of these
PlainLinesKeepEveryCharacter ==
    \A k \in Handled :
        (35 \notin Chars(Line(k)) /\ Chars(Line(k)) \cap (Quotes \cup {BACKSLASH}) = {}
            /\ Len(Line(k)) <= max_arguments)
        => Flatten(log[k].decoded) = WithoutWhitespace(Line(k))

====
